---- MODULE Spec2Model ----
(***************************************************************************)
(* Model of the voice-scheduling-agent backend: the POST /api/create-event *)
(* pipeline (envelope unwrap, zod validation, chrono/luxon resolution,     *)
(* past-date guard, Google Calendar call), the calendar audit log and the  *)
(* in-memory session event store.                                          *)
(*                                                                         *)
(* Node runs one callback at a time, so the synchronous part of a handler  *)
(* is one atomic action; the only point where other requests interleave is *)
(* the await of calendar.events.insert.                                    *)
(***************************************************************************)
EXTENDS Integers, Sequences, FiniteSets, TLC

(***************************************************************************)
(* JSON values as they reach the handler after express.json().             *)
(* A string carries its leading/trailing whitespace counts and the length  *)
(* of its trimmed core, so that .length and .trim() are computed.          *)
(* A number is kept as twice its value, so that 30.5 is representable and  *)
(* Number.isInteger is computed.                                           *)
(***************************************************************************)
Undefined == [t |-> "undefined"]
Null == [t |-> "null"]
Padded(l, c, n, r) == [t |-> "string", lead |-> l, core |-> c, n |-> n, trail |-> r]
Txt(c, n) == Padded(0, c, n, 0)
Num(k) == [t |-> "number", twice |-> 2 * k]
NumHalves(h) == [t |-> "number", twice |-> h]
Obj(f) == [t |-> "object", o |-> f]
Arr(q) == [t |-> "array", a |-> q]
EmptyObj == Obj([k \in {} |-> Undefined])

IsNullish(v) == v.t \in {"undefined", "null"}

\* v.k on a value that is not null/undefined (a missing property reads undefined)
Get(v, k) == IF v.t = "object" /\ k \in DOMAIN v.o THEN v.o[k] ELSE Undefined

\* v?.k
OptGet(v, k) == IF IsNullish(v) THEN Undefined ELSE Get(v, k)

\* a ?? b
Coalesce(a, b) == IF IsNullish(a) THEN b ELSE a

\* the own enumerable string-keyed properties copied by {...v}; the payloads
\* drawn below carry objects, numbers, null or undefined in spread position
Spread(v) == IF v.t = "object" THEN v.o ELSE [k \in {} |-> Undefined]

\* if (v) ...
Truthy(v) ==
  CASE v.t \in {"undefined", "null"} -> FALSE
    [] v.t = "string" -> v.lead + v.n + v.trail > 0
    [] v.t = "number" -> v.twice # 0
    [] OTHER -> TRUE

StrLength(v) == v.lead + v.n + v.trail
Trim(v) == Padded(0, v.core, v.n, 0)

(***************************************************************************)
(* Envelope unwrap and merge (create-event step 2).                        *)
(***************************************************************************)
Message(body) == OptGet(body, "message")
ToolCallList(body) == OptGet(Message(body), "toolCallList")

isVapiEnvelope(body) ==
  /\ OptGet(Message(body), "type") = Txt("tool-calls", 10)
  /\ ToolCallList(body).t = "array"
  /\ Len(ToolCallList(body).a) > 0

\* the last element of the list in place of the first
LastToolCall(body) == ToolCallList(body).a[Len(ToolCallList(body).a)]

FirstToolCall(body) == ToolCallList(body).a[1]

\* body.message.toolCallList[0].id and .function are plain property reads:
\* they raise a TypeError when the first element is null
UnwrapThrows(body) == isVapiEnvelope(body) /\ IsNullish(FirstToolCall(body))

toolCallId(body) ==
  IF isVapiEnvelope(body) THEN Get(FirstToolCall(body), "id") ELSE Undefined

rawArgs(body) ==
  IF isVapiEnvelope(body)
  THEN Coalesce(OptGet(Get(FirstToolCall(body), "function"), "arguments"), EmptyObj)
  ELSE body

callMeta(body) ==
  IF isVapiEnvelope(body)
  THEN Coalesce(OptGet(OptGet(Message(body), "call"), "metadata"), EmptyObj)
  ELSE EmptyObj

MetaDefaults(body) ==
  [k \in {"sessionId", "timezone"} |-> Get(callMeta(body), k)]

\* a merge in which the call metadata is spread over the arguments
mergedMetadataOver(body) == Obj(Spread(callMeta(body)) @@ Spread(rawArgs(body)))

merged(body) == Obj(Spread(rawArgs(body)) @@ MetaDefaults(body))

(***************************************************************************)
(* Message texts: a text is a sequence of fragments, so that template      *)
(* strings and joins are computed by concatenation.                        *)
(***************************************************************************)
Lit(s) == [lit |-> s]
Iso(localMin) == [iso |-> localMin]

RECURSIVE Join(_, _)
\* parts.join(sep), parts a sequence of texts
Join(parts, sep) ==
  IF parts = << >> THEN << >>
  ELSE IF Len(parts) = 1 THEN parts[1]
  ELSE parts[1] \o <<Lit(sep)>> \o Join(Tail(parts), sep)

(***************************************************************************)
(* CreateEventSchema (zod).  Each field validator yields the issue         *)
(* messages of that field, in check order; zod runs every check of a       *)
(* string or number and collects all issues.                               *)
(***************************************************************************)
\* strings the pattern of z.string().uuid() matches: 8-4-4-4-12 hex digits
\* with a version digit 1..8; the second one is a version-1 UUID
ZodUuids ==
  { "11111111-1111-4111-8111-111111111111",
    "22222222-2222-1222-8222-222222222222",
    "33333333-3333-4333-9333-333333333333",
    "44444444-4444-4444-a444-444444444444" }

\* zones known to the runtime's timezone database (IANAZone.isValidZone)
IanaZones == {"UTC", "Europe/Istanbul", "America/New_York"}

IsValidZone(v) == v.lead = 0 /\ v.trail = 0 /\ v.core \in IanaZones

TypeIssue(v) ==
  CASE v.t = "undefined" -> <<"Required">>
    [] v.t = "null" -> <<"Expected string, received null">>
    [] v.t = "number" -> <<"Expected string, received number">>
    [] v.t = "object" -> <<"Expected string, received object">>
    [] v.t = "array" -> <<"Expected string, received array">>

sessionIdIssues(v) ==
  IF v.t # "string" THEN TypeIssue(v)
  ELSE IF v.lead = 0 /\ v.trail = 0 /\ v.core \in ZodUuids THEN << >>
  ELSE <<"sessionId must be a valid UUID">>

\* .min(1).max(100) are checked on the string as received; .trim() runs after
nameIssues(v) ==
  IF v.t # "string" THEN TypeIssue(v)
  ELSE (IF StrLength(v) < 1 THEN <<"name is required">> ELSE << >>)
       \o (IF StrLength(v) > 100
           THEN <<"name must be 100 characters or fewer">> ELSE << >>)

dateIssues(v) ==
  IF v.t # "string" THEN TypeIssue(v)
  ELSE IF StrLength(v) < 1 THEN <<"date is required">> ELSE << >>

timeIssues(v) ==
  IF v.t # "string" THEN TypeIssue(v)
  ELSE IF StrLength(v) < 1 THEN <<"time is required">> ELSE << >>

timezoneIssues(v) ==
  IF v.t # "string" THEN TypeIssue(v)
  ELSE IF IsValidZone(v) THEN << >>
  ELSE <<"timezone must be a valid IANA timezone (e.g. \"America/New_York\")">>

\* a field that takes any number
durationMinsAnyNumber(v) ==
  IF v.t = "undefined" THEN <<"Required">>
  ELSE IF v.t # "number" THEN <<"durationMins must be a number">>
  ELSE << >>

durationMinsIssues(v) ==
  IF v.t = "undefined" THEN <<"Required">>
  ELSE IF v.t # "number" THEN <<"durationMins must be a number">>
  ELSE (IF v.twice % 2 # 0 THEN <<"durationMins must be an integer">> ELSE << >>)
       \o (IF v.twice < 2 * 5 THEN <<"durationMins must be at least 5">> ELSE << >>)
       \o (IF v.twice > 2 * 240 THEN <<"durationMins must be at most 240">> ELSE << >>)

titleIssues(v) ==
  IF v.t = "undefined" THEN << >>
  ELSE IF v.t # "string" THEN TypeIssue(v)
  ELSE (IF StrLength(v) < 1
        THEN <<"String must contain at least 1 character(s)">> ELSE << >>)
       \o (IF StrLength(v) > 200
           THEN <<"title must be 200 characters or fewer">> ELSE << >>)

\* the keys of z.object({...}), in declaration order
SchemaFields ==
  <<"sessionId", "name", "date", "time", "timezone", "durationMins", "title">>

FieldIssues(m, f) ==
  CASE f = "sessionId" -> sessionIdIssues(Get(m, f))
    [] f = "name" -> nameIssues(Get(m, f))
    [] f = "date" -> dateIssues(Get(m, f))
    [] f = "time" -> timeIssues(Get(m, f))
    [] f = "timezone" -> timezoneIssues(Get(m, f))
    [] f = "durationMins" -> durationMinsIssues(Get(m, f))
    [] f = "title" -> titleIssues(Get(m, f))

\* parseResult.error.flatten().fieldErrors: field -> messages, for the fields
\* that have an issue
fieldErrors(m) ==
  [f \in {g \in {SchemaFields[i] : i \in DOMAIN SchemaFields} :
            FieldIssues(m, g) # << >>} |-> FieldIssues(m, f)]

\* parseResult.data: unknown keys stripped, strings trimmed by .trim()
ParsedData(m) ==
  [ sessionId    |-> Get(m, "sessionId"),
    name         |-> Trim(Get(m, "name")),
    date         |-> Trim(Get(m, "date")),
    time         |-> Trim(Get(m, "time")),
    timezone     |-> Get(m, "timezone"),
    durationMins |-> Get(m, "durationMins").twice \div 2,
    title        |-> IF Get(m, "title").t = "undefined" THEN Undefined
                     ELSE Trim(Get(m, "title")) ]

\* a validator that does not look at the sessionId and timezone fields
safeParseLenient(m) == DOMAIN fieldErrors(m) \subseteq {"sessionId", "timezone"}

safeParseSuccess(m) == DOMAIN fieldErrors(m) = {}

RECURSIVE SummaryParts(_, _)
\* Object.entries(fieldErrors).map(([field, msgs]) => `${field}: ${msgs.join(', ')}`)
SummaryParts(m, i) ==
  IF i > Len(SchemaFields) THEN << >>
  ELSE LET f == SchemaFields[i]
           msgs == FieldIssues(m, f)
           one == <<Lit(f), Lit(": ")>>
                    \o Join([j \in DOMAIN msgs |-> <<Lit(msgs[j])>>], ", ")
       IN (IF msgs = << >> THEN << >> ELSE <<one>>) \o SummaryParts(m, i + 1)

errorSummary(m) == Join(SummaryParts(m, 1), "; ")

(***************************************************************************)
(* Time.  An instant is a number of minutes since 2026-03-07T00:00Z; a     *)
(* wall-clock reading is the same count read in a zone (instant + offset). *)
(***************************************************************************)
MinutesPerDay == 24 * 60

\* 2026-03-08T07:00Z: America/New_York goes from 02:00 EST to 03:00 EDT
NewYorkDstStart == MinutesPerDay + 7 * 60

\* 2026-11-01T06:00Z: America/New_York goes from 02:00 EDT back to 01:00 EST
NewYorkDstEnd == 239 * MinutesPerDay + 6 * 60

\* zone.offset(ts) of luxon's IANAZone, in minutes
ZoneOffset(zone, ts) ==
  CASE zone = "UTC" -> 0
    [] zone = "Europe/Istanbul" -> 3 * 60
    [] zone = "America/New_York" ->
         IF ts >= NewYorkDstStart /\ ts < NewYorkDstEnd
         THEN 0 - 4 * 60 ELSE 0 - 5 * 60

\* luxon fixOffset(localTS, o, tz): the instant whose reading in tz is localTS
FixOffset(localTS, o, zone) ==
  LET utcGuess == localTS - o
      o2 == ZoneOffset(zone, utcGuess)
      utcGuess2 == utcGuess - (o2 - o)
      o3 == ZoneOffset(zone, utcGuess2)
  IN IF o = o2 THEN utcGuess
     ELSE IF o2 = o3 THEN utcGuess2
     ELSE localTS - (IF o2 < o3 THEN o2 ELSE o3)

\* DateTime.now().setZone(timezone): year..second as read in the user's zone
nowInUserTz(now, zone) == now + ZoneOffset(zone, now)

\* new Date(): the process's own clock as the reference
processNow(now, zone, procOffset) == now

\* new Date(y, m, d, h, mi, s) builds the instant whose reading in the
\* process's zone is (y, m, d, h, mi, s); the process zone has a fixed offset
tzAwareRef(now, zone, procOffset) == nowInUserTz(now, zone) - procOffset

\* the ISO dates the payloads name, with the day each one is
IsoDays ==
  [ d \in {"2020-01-01", "2026-03-06", "2026-03-07", "2026-03-08", "2026-03-09",
           "2026-03-10", "2026-03-20", "2026-10-31", "2026-11-01", "2026-11-02"} |->
      CASE d = "2020-01-01" -> 0 - 2257
        [] d = "2026-03-06" -> 0 - 1
        [] d = "2026-03-07" -> 0
        [] d = "2026-03-08" -> 1
        [] d = "2026-03-09" -> 2
        [] d = "2026-03-10" -> 3
        [] d = "2026-03-20" -> 13
        [] d = "2026-10-31" -> 238
        [] d = "2026-11-01" -> 239
        [] d = "2026-11-02" -> 240 ]

\* chrono-node, date part: the day the phrase names, counted from the
\* model's day 0, given the day the reference reads
ChronoDay(date, refDay) ==
  CASE date = "today" -> [ok |-> TRUE, day |-> refDay]
    [] date = "tomorrow" -> [ok |-> TRUE, day |-> refDay + 1]
    [] date \in DOMAIN IsoDays -> [ok |-> TRUE, day |-> IsoDays[date]]
    [] OTHER -> [ok |-> FALSE, day |-> 0]

\* "HH:mm" of a minute of the day
TwoDigits(n) == IF n < 10 THEN "0" \o ToString(n) ELSE ToString(n)
ClockText(minute) == TwoDigits(minute \div 60) \o ":" \o TwoDigits(minute % 60)

ClockMinutes == [m \in 0..(MinutesPerDay - 1) |-> ClockText(m)]

\* chrono-node, time part: minute of the day the phrase names
ChronoMinute(time) ==
  IF time = "11 PM" THEN [ok |-> TRUE, minute |-> 23 * 60]
  ELSE IF \E m \in DOMAIN ClockMinutes : ClockMinutes[m] = time
       THEN [ok |-> TRUE,
             minute |-> CHOOSE m \in DOMAIN ClockMinutes : ClockMinutes[m] = time]
       ELSE [ok |-> FALSE, minute |-> 0]

\* chrono.parseDate(`${date} ${time}`, ref, { forwardDate: true }): chrono
\* reads the reference and writes its result through the process-local
\* getters of Date, so both are readings in the process's zone.  The inputs
\* drawn name both a date and a time, or neither.
parseDate(date, time, ref, procOffset) ==
  LET refLocal == ref + procOffset
      d == ChronoDay(date.core, refLocal \div MinutesPerDay)
      m == ChronoMinute(time.core)
  IN IF d.ok /\ m.ok
     THEN [ok |-> TRUE, ts |-> d.day * MinutesPerDay + m.minute - procOffset]
     ELSE [ok |-> FALSE, ts |-> 0]

\* DateTime.fromJSDate(parsedDate).setZone(timezone): the same instant
setZoneOnly(parsedTs, zone, procOffset) == parsedTs

\* DateTime.fromJSDate(parsedDate).setZone(timezone, { keepLocalTime: true })
keepLocalTime(parsedTs, zone, procOffset) ==
  FixOffset(parsedTs + procOffset, ZoneOffset(zone, parsedTs), zone)

\* startDt.isValid: luxon invalidates only an unsupported zone
startIsValid(zone) == zone \in IanaZones

\* dt.toFormat("yyyy-MM-dd'T'HH:mm:ss"): the reading of ts in the zone
toFormat(ts, zone) == <<Iso(ts + ZoneOffset(zone, ts))>>

\* no guard at all
neverPast(startTs, now) == FALSE

\* startDt <= DateTime.now().setZone(timezone): DateTimes compare by instant
isPast(startTs, now) == startTs <= now

(***************************************************************************)
(* Audit log (utils/auditLog.ts) and session hash (utils/logger.ts).       *)
(***************************************************************************)
\* sha256(sessionId).slice(0, 12): an opaque digest of the string
hashSessionId(v) == [sha256_12 |-> v]

NoHash == [placeholder |-> "--"]

\* the shared input block of the audit entries: the validated record
\* without its sessionId
auditInput(data) ==
  [k \in {"date", "time", "timezone", "durationMins", "name", "title"} |-> data[k]]

\* the timestamp field (the clock reading at the write) is left out: entries
\* are told apart by their position in the file
AuditEntry(rid, hash, stage, rawBody, input, startISO, endISO, status, err, link) ==
  [ requestId      |-> rid,
    sessionIdHash  |-> hash,
    stage          |-> stage,
    rawBody        |-> rawBody,
    input          |-> input,
    parsedStartISO |-> startISO,
    parsedEndISO   |-> endISO,
    googleStatus   |-> status,
    errorMessage   |-> err,
    htmlLink       |-> link ]

\* a writer that lets the I/O error out to its caller
writeUnguarded(file, entry, diskOk) ==
  [ file  |-> IF diskOk THEN Append(file, entry) ELSE file,
    threw |-> ~diskOk ]

\* fs.writeFileSync in place of the append: the file is replaced by the entry
writeReplacing(file, entry, diskOk) ==
  [ file  |-> IF diskOk THEN <<entry>> ELSE file,
    threw |-> FALSE ]

\* fs.appendFileSync inside try/catch: on an I/O error nothing is appended
\* and the error is only printed; the function never throws
writeCalendarAuditLog(file, entry, diskOk) ==
  [ file  |-> IF diskOk THEN Append(file, entry) ELSE file,
    threw |-> FALSE ]

(***************************************************************************)
(* Session event store (in-memory Map, at most 50 events per session).     *)
(***************************************************************************)
StoreGet(store, sid) == IF sid \in DOMAIN store THEN store[sid] ELSE << >>

\* a store that puts the newest event first
storeNewestFirst(store, sid, evt) ==
  LET pushed == <<evt>> \o StoreGet(store, sid)
      list == IF Len(pushed) > 50 THEN SubSeq(pushed, 1, 50) ELSE pushed
  IN [k \in DOMAIN store \cup {sid} |-> IF k = sid THEN list ELSE store[k]]

\* a store that takes no event
storeNothing(store, sid, evt) == store

\* a store that stops taking events once a session has 50
storeKeepOldest(store, sid, evt) ==
  LET pushed == Append(StoreGet(store, sid), evt)
      list == IF Len(pushed) > 50 THEN SubSeq(pushed, 1, 50) ELSE pushed
  IN [k \in DOMAIN store \cup {sid} |-> IF k = sid THEN list ELSE store[k]]

storeSessionEvent(store, sid, evt) ==
  LET pushed == Append(StoreGet(store, sid), evt)
      list == IF Len(pushed) > 50 THEN Tail(pushed) ELSE pushed
  IN [k \in DOMAIN store \cup {sid} |-> IF k = sid THEN list ELSE store[k]]

(***************************************************************************)
(* Google services (services/googleAuth.ts, services/calendarService.ts).  *)
(***************************************************************************)
\* what calendar.events.insert can do: resolve with a complete or an
\* incomplete event, or reject with one of the errors mapGoogleError tells apart
InsertOutcomes ==
  {"ok", "incomplete", "invalid_grant", "forbidden", "rate_limited", "generic"}

GoogleApiError(message, statusCode) == [message |-> message, statusCode |-> statusCode]

NoSessionError ==
  GoogleApiError(<<Lit("Session not connected. Please authorise with Google Calendar first.")>>, 401)

\* the GoogleApiError createCalendarEvent throws for a failed insert
mapGoogleError(kind) ==
  CASE kind = "invalid_grant" ->
         GoogleApiError(<<Lit("Google authorisation expired. Please reconnect Google Calendar at /auth/google/start.")>>, 401)
    [] kind = "forbidden" ->
         GoogleApiError(<<Lit("Insufficient Google Calendar permissions. Please reconnect and grant calendar access.")>>, 403)
    [] kind = "rate_limited" ->
         GoogleApiError(<<Lit("Google Calendar API rate limit exceeded. Please try again shortly.")>>, 429)
    [] kind = "generic" ->
         GoogleApiError(<<Lit("Google Calendar API error: "), Lit("backend error")>>, 502)
    [] kind = "incomplete" ->
         GoogleApiError(<<Lit("Google Calendar returned an incomplete event response.")>>, 502)

\* a client built for any session id
anyRefreshToken(sessions, sid) == TRUE

\* buildAuthorisedClient: getRefreshToken(sessionId) finds a stored token
hasRefreshToken(sessions, sid) == sid.core \in sessions

(***************************************************************************)
(* POST /api/create-event.  A run is the request record being built plus   *)
(* the audit file as the handler leaves it.  req.trace lists the handler's *)
(* steps in execution order; req.audits the entries handed to the audit    *)
(* writer; req.replies the responses sent; req.calls the arguments of      *)
(* createCalendarEvent.                                                    *)
(***************************************************************************)
NewRun(rid, body, file) ==
  [ req |-> [ requestId |-> rid,
              body      |-> body,
              phase     |-> "running",
              outcome   |-> "none",
              trace     |-> << >>,
              audits    |-> << >>,
              replies   |-> << >>,
              calls     |-> << >>,
              stored    |-> << >>,
              data      |-> Undefined,
              startTs   |-> 0 ],
    file  |-> file,
    threw |-> FALSE ]

Mark(run, step) == [run EXCEPT !.req.trace = Append(@, step)]

Audit(run, entry, diskOk) ==
  LET w == writeCalendarAuditLog(run.file, entry, diskOk)
  IN [run EXCEPT !.file = w.file,
                 !.threw = w.threw,
                 !.req.audits = Append(@, entry),
                 !.req.trace = Append(@, "audit")]

\* an exception leaves the async handler: its promise rejects
Crash(run) == [run EXCEPT !.req.phase = "crashed", !.req.outcome = "exception"]

\* vapiReply(result, httpStatus = 200)
vapiReply(tcid, result, httpStatus) ==
  IF Truthy(tcid)
  THEN [status |-> httpStatus, shape |-> "results", toolCallId |-> tcid,
        text |-> result, by |-> "vapiReply"]
  ELSE [status |-> httpStatus, shape |-> "error", toolCallId |-> Undefined,
        text |-> result, by |-> "vapiReply"]

Reply(run, text) ==
  [run EXCEPT !.req.replies = Append(@, vapiReply(toolCallId(run.req.body), text, 200)),
              !.req.trace = Append(@, "reply")]

\* write the terminal audit entry, answer, return
Terminate(run, entry, text, outcome, diskOk) ==
  LET a == Audit(run, entry, diskOk)
  IN IF a.threw THEN Crash(a)
     ELSE [Reply(a, text) EXCEPT !.req.phase = "done", !.req.outcome = outcome]

\* a first entry that hashes the session id found in the body
ReceivedEntryHashed(rid, body) ==
  LET sid == Get(body, "sessionId")
  IN AuditEntry(rid, IF sid.t = "string" THEN hashSessionId(sid) ELSE NoHash,
                "received", body, Undefined, << >>, << >>, 0, << >>, Undefined)

ReceivedEntry(rid, body) ==
  AuditEntry(rid, NoHash, "received", body, Undefined, << >>, << >>, 0, << >>, Undefined)

\* the audit entry and the reply of the schema-validation branch
ValidationEntry(rid, body) ==
  LET m == merged(body)
      sid == Get(m, "sessionId")
      hash == IF sid.t = "string" /\ StrLength(sid) > 0 THEN hashSessionId(sid) ELSE NoHash
  IN AuditEntry(rid, hash, "validation_error", body, Undefined, << >>, << >>, 0,
                <<[json |-> fieldErrors(m)]>>, Undefined)

ValidationText(body) == <<Lit("Validation failed -- ")>> \o errorSummary(merged(body))

ParseFailText(data) ==
  <<Lit("Could not parse date/time from: \""), Lit(data.date.core), Lit(" "),
    Lit(data.time.core),
    Lit("\". Please provide a recognisable date and time (e.g. \"tomorrow at 3pm\" or \"5 March at 14:00\").")>>

\* a parse branch that writes a stage of its own
ParseFailEntryOwnStage(rid, body, data) ==
  AuditEntry(rid, hashSessionId(data.sessionId), "parse_error", body, auditInput(data),
             << >>, << >>, 0, ParseFailText(data), Undefined)

ParseFailEntry(rid, body, data) ==
  AuditEntry(rid, hashSessionId(data.sessionId), "validation_error", body, auditInput(data),
             << >>, << >>, 0, ParseFailText(data), Undefined)

ZoneFailText(data) ==
  <<Lit("Parsed datetime is invalid for timezone \""), Lit(data.timezone.core),
    Lit("\". "), Lit("the zone is an unsupported zone")>>

ZoneFailEntry(rid, body, data) ==
  AuditEntry(rid, hashSessionId(data.sessionId), "validation_error", body, auditInput(data),
             << >>, << >>, 0, ZoneFailText(data), Undefined)

startISO(data, startTs) == toFormat(startTs, data.timezone.core)
endISO(data, startTs) == toFormat(startTs + data.durationMins, data.timezone.core)

PastText(data, startTs) ==
  <<Lit("The requested time ")>> \o startISO(data, startTs)
    \o <<Lit(" ("), Lit(data.timezone.core),
         Lit(") is in the past. Please choose a future date and time.")>>

PastEntry(rid, body, data, startTs) ==
  AuditEntry(rid, hashSessionId(data.sessionId), "past_time", body, auditInput(data),
             startISO(data, startTs), endISO(data, startTs), 0,
             PastText(data, startTs), Undefined)

eventTitle(data) ==
  IF data.title.t = "undefined"
  THEN <<Lit("Meeting with "), Lit(data.name.core)>>
  ELSE <<Lit(data.title.core)>>

\* the argument of createCalendarEvent
CreateEventParams(rid, data, startTs) ==
  [ sessionId    |-> data.sessionId,
    requestId    |-> rid,
    title        |-> eventTitle(data),
    description  |-> <<Lit("Scheduled for "), Lit(data.name.core)>>,
    startRFC3339 |-> startISO(data, startTs),
    endRFC3339   |-> endISO(data, startTs),
    timezone     |-> data.timezone.core ]

SuccessEntry(rid, body, data, startTs, link) ==
  AuditEntry(rid, hashSessionId(data.sessionId), "google_success", body, auditInput(data),
             startISO(data, startTs), endISO(data, startTs), 0, << >>, link)

GoogleErrorEntry(rid, body, data, startTs, status, message) ==
  AuditEntry(rid, hashSessionId(data.sessionId), "google_error", body, auditInput(data),
             startISO(data, startTs), endISO(data, startTs), status, message, Undefined)

SuccessText(data, startTs) ==
  <<Lit("Successfully created \"")>> \o eventTitle(data) \o <<Lit("\" on ")>>
    \o startISO(data, startTs) \o <<Lit(" ("), Lit(data.timezone.core), Lit(").")>>

\* a catch block that calls createCalendarEvent once more before reporting
CatchAndRetry(run, err, diskOk) ==
  LET q == run.req
      again == [Mark(Mark(run, "createCalendarEvent"), "insert") EXCEPT
                  !.req.calls = Append(@, q.calls[1])]
  IN Terminate(again,
       GoogleErrorEntry(q.requestId, q.body, q.data, q.startTs, err.statusCode, err.message),
       err.message, "google_error", diskOk)

\* catch (err) of step 6, err a GoogleApiError
CatchGoogleApiError(run, err, diskOk) ==
  LET q == run.req
  IN Terminate(run,
       GoogleErrorEntry(q.requestId, q.body, q.data, q.startTs, err.statusCode, err.message),
       err.message, "google_error", diskOk)

\* catch (err) of step 6, err anything else
CatchUnexpected(run, diskOk) ==
  LET q == run.req
  IN Terminate(run,
       GoogleErrorEntry(q.requestId, q.body, q.data, q.startTs, 500, <<Lit("error")>>),
       <<Lit("Internal server error. Please try again.")>>, "unexpected", diskOk)

\* steps 3b..6 up to the await of calendar.events.insert, for a validated record
ResolveAndCall(run, now, procOffset, sessions, diskOk) ==
  LET q == run.req
      data == ParsedData(merged(q.body))
      zone == data.timezone.core
      ref == tzAwareRef(now, zone, procOffset)
      parsed == parseDate(data.date, data.time, ref, procOffset)
      r1 == [Mark(run, "parseDate") EXCEPT !.req.data = data]
  IN IF ~parsed.ok
     THEN Terminate(r1, ParseFailEntry(q.requestId, q.body, data),
                    ParseFailText(data), "parse", diskOk)
     ELSE
     LET r2 == Mark(r1, "setZone")
     IN IF ~startIsValid(zone)
        THEN Terminate(r2, ZoneFailEntry(q.requestId, q.body, data),
                       ZoneFailText(data), "zone", diskOk)
        ELSE
        LET startTs == keepLocalTime(parsed.ts, zone, procOffset)
            r3 == [Mark(r2, "guard") EXCEPT !.req.startTs = startTs]
        IN IF isPast(startTs, now)
           THEN Terminate(r3, PastEntry(q.requestId, q.body, data, startTs),
                          PastText(data, startTs), "past", diskOk)
           ELSE
           LET r4 == [Mark(r3, "createCalendarEvent") EXCEPT
                        !.req.calls = Append(@, CreateEventParams(q.requestId, data, startTs))]
           IN IF ~hasRefreshToken(sessions, data.sessionId)
              THEN CatchGoogleApiError(r4, NoSessionError, diskOk)
              ELSE [Mark(r4, "insert") EXCEPT !.req.phase = "awaiting"]

\* the handler from its first statement to its first suspension or its return
HandleCreateEvent(rid, body, now, procOffset, sessions, file, diskOk) ==
  LET r0 == Audit(NewRun(rid, body, file), ReceivedEntry(rid, body), diskOk)
  IN IF r0.threw THEN Crash(r0)
     ELSE
     LET r1 == Mark(r0, "unwrap")
     IN IF UnwrapThrows(body) THEN Crash(r1)
        ELSE
        LET r2 == Mark(r1, "safeParse")
        IN IF ~safeParseSuccess(merged(body))
           THEN Terminate(r2, ValidationEntry(rid, body),
                          ValidationText(body), "schema", diskOk)
           ELSE ResolveAndCall(r2, now, procOffset, sessions, diskOk)

\* the handler from the settlement of calendar.events.insert to its return
ResumeCreateEvent(req, outcome, file, store, diskOk) ==
  LET run == [req |-> req, file |-> file, threw |-> FALSE]
      link == [eventOf |-> req.requestId]
      evt == [ title    |-> eventTitle(req.data),
               startISO |-> startISO(req.data, req.startTs),
               timezone |-> req.data.timezone.core,
               htmlLink |-> link ]
  IN IF outcome = "ok"
     THEN LET a == Audit(run, SuccessEntry(req.requestId, req.body, req.data,
                                           req.startTs, link), diskOk)
          IN IF a.threw
             THEN [run |-> CatchUnexpected(a, diskOk), store |-> store]
             ELSE [run |-> [Reply([Mark(a, "storeSessionEvent") EXCEPT
                                     !.req.stored = Append(@, evt)],
                                  SuccessText(req.data, req.startTs))
                            EXCEPT !.req.phase = "done", !.req.outcome = "success"],
                   store |-> storeSessionEvent(store, req.data.sessionId.core, evt)]
     ELSE [run |-> CatchGoogleApiError(run, mapGoogleError(outcome), diskOk),
           store |-> store]

(***************************************************************************)
(* Payloads.                                                               *)
(***************************************************************************)
SidA == Txt("11111111-1111-4111-8111-111111111111", 36)
SidV1 == Txt("22222222-2222-1222-8222-222222222222", 36)

Fields(sid, date, time, zone) ==
  [ sessionId    |-> sid,
    name         |-> Txt("Jacob", 5),
    date         |-> date,
    time         |-> time,
    timezone     |-> zone,
    durationMins |-> Num(30) ]

SpokenArgs ==
  [ name         |-> Txt("Jacob", 5),
    date         |-> Txt("tomorrow", 8),
    time         |-> Txt("11 PM", 5),
    durationMins |-> Num(30),
    title        |-> Txt("Big Project", 11) ]

ToolCall(id, fn) == Obj([id |-> id, type |-> Txt("function", 8), function |-> fn])
Function(args) == Obj([name |-> Txt("create_calendar_event", 21), arguments |-> args])

Envelope(type, list, call) ==
  Obj([message |-> Obj([type |-> type, toolCallList |-> list, call |-> call])])

ToolCalls == Txt("tool-calls", 10)

BrowserCall ==
  Obj([metadata |-> Obj([sessionId |-> SidA, timezone |-> Txt("Europe/Istanbul", 15)])])

\* the payloads the server receives in the request-level model
Bodies ==
  { \* direct calls
    Obj(Fields(SidA, Txt("2026-03-20", 10), Txt("10:00", 5), Txt("America/New_York", 16))),
    Obj(Fields(Txt("not-a-uuid", 10), Txt("2026-03-20", 10), Txt("10:00", 5), Txt("Mars/Phobos", 11))),
    Obj(Fields(SidA, Txt("blursday", 8), Txt("whenever", 8), Txt("UTC", 3))),
    \* tool calls
    Envelope(ToolCalls, Arr(<<ToolCall(Txt("call_1", 6), Function(Obj(SpokenArgs)))>>), BrowserCall),
    Envelope(ToolCalls,
             Arr(<<ToolCall(Txt("call_2", 6),
                            Function(Obj(Fields(SidA, Txt("2020-01-01", 10), Txt("09:00", 5), Txt("UTC", 3)))))>>),
             BrowserCall),
    \* a tool call that carries no id, for a session without a stored token
    Envelope(ToolCalls,
             Arr(<<Obj([function |->
                     Function(Obj(Fields(SidV1, Txt("2026-03-20", 10), Txt("10:00", 5), Txt("UTC", 3))))])>>),
             BrowserCall),
    \* a tool call without a function, and a null tool call
    Envelope(ToolCalls, Arr(<<Obj([id |-> Txt("call_3", 6)])>>), Undefined),
    Envelope(ToolCalls, Arr(<<Null>>), BrowserCall) }

(***************************************************************************)
(* The server.                                                             *)
(***************************************************************************)
VARIABLES
  requests,            \* the create-event requests received so far, by requestId
  auditFile,           \* logs/calendar-audit.jsonl, one entry per line
  sessionEventStore,   \* sessionId -> events created in that session
  sessions,            \* session ids that have a refresh token in SQLite
  now,                 \* the clock
  norm,                \* the last payload unwrapped on its own, with the result
  duration,            \* the last durationMins value validated on its own
  resolved,            \* a date/time request put to the handler on its own
  ledgerLog,           \* every event ever recorded, by session, and the last listing
  debug                \* NODE_ENV and the last answer of GET /debug/last-audit

serverVars == <<requests, auditFile, sessionEventStore, sessions, now>>

vars == <<serverVars, norm, duration, resolved, ledgerLog, debug>>

MaxRequests == 1
MaxTicks == 1
ServerOffset == 0

\* 2026-03-07T22:30Z: already 8 March in Istanbul
ClockStart == 22 * 60 + 30

\* what becomes of a rejected handler promise: express 4 leaves the request
\* unanswered, express 5 passes the error to the error-handling middleware
Escapes == {"unanswered", "errorHandler"}

ErrorHandlerReply ==
  [status |-> 500, shape |-> "error", toolCallId |-> Undefined,
   text |-> <<Lit("Internal server error")>>, by |-> "errorHandler"]

Escape(req, esc) ==
  IF req.phase = "crashed" /\ esc = "errorHandler"
  THEN [req EXCEPT !.replies = Append(@, ErrorHandlerReply)]
  ELSE req

NoUnwrap ==
  [ shape |-> "none", args |-> Undefined, meta |-> Undefined, body |-> Undefined,
    raised |-> FALSE, toolCallId |-> Undefined, record |-> Undefined ]

NoDuration == [phase |-> "none", value |-> Undefined, accepted |-> FALSE, minutes |-> 0]

NoResolve ==
  [ phase |-> "none", kind |-> "none", zone |-> "UTC", procOffset |-> 0, at |-> 0,
    local |-> 0, req |-> NewRun(0, Undefined, << >>).req ]

NoListing == [asked |-> "", status |-> 0, events |-> << >>]

NoDebug(nodeEnv) ==
  [ nodeEnv |-> nodeEnv, asked |-> FALSE, n |-> Undefined, status |-> 0,
    count |-> 0, total |-> 0, entries |-> << >> ]

NoLedgerLog == [history |-> [k \in {} |-> << >>], count |-> 0, response |-> NoListing]

ServerInit ==
  /\ requests = << >>
  /\ auditFile = << >>
  /\ sessionEventStore = [k \in {} |-> << >>]
  /\ sessions = {SidA.core}
  /\ now = ClockStart

Init ==
  /\ ServerInit
  /\ norm = NoUnwrap
  /\ duration = NoDuration
  /\ resolved = NoResolve
  /\ ledgerLog = NoLedgerLog
  /\ debug = NoDebug("development")

\* requestLogger assigns the requestId; the handler runs to its first await.
\* diskOk: whether appending to the audit file succeeds during this run
Receive(body, diskOk, esc) ==
  /\ LET rid == Len(requests) + 1
         run == HandleCreateEvent(rid, body, now, ServerOffset, sessions, auditFile, diskOk)
     IN /\ requests' = Append(requests, Escape(run.req, esc))
        /\ auditFile' = run.file
  /\ UNCHANGED <<sessionEventStore, sessions, now, norm, duration, resolved, ledgerLog, debug>>

CreateEvent(body, diskOk, esc) ==
  /\ Len(requests) < MaxRequests
  /\ Receive(body, diskOk, esc)

\* calendar.events.insert settles and the handler resumes
InsertSettles(i, outcome, diskOk, esc) ==
  /\ requests[i].phase = "awaiting"
  /\ LET res == ResumeCreateEvent(requests[i], outcome, auditFile,
                                  sessionEventStore, diskOk)
     IN /\ requests' = [requests EXCEPT ![i] = Escape(res.run.req, esc)]
        /\ auditFile' = res.run.file
        /\ sessionEventStore' = res.store
  /\ UNCHANGED <<sessions, now, norm, duration, resolved, ledgerLog, debug>>

Tick ==
  /\ now < ClockStart + MaxTicks
  /\ now' = now + 1
  /\ UNCHANGED <<requests, auditFile, sessionEventStore, sessions, norm, duration, resolved, ledgerLog, debug>>

Next ==
  \/ \E body \in Bodies, diskOk \in BOOLEAN, esc \in Escapes :
       CreateEvent(body, diskOk, esc)
  \/ \E i \in DOMAIN requests, outcome \in InsertOutcomes, diskOk \in BOOLEAN,
        esc \in Escapes :
       InsertSettles(i, outcome, diskOk, esc)
  \/ Tick

Spec == Init /\ [][Next]_vars

\* the server with a clock that keeps running; whether and when Google
\* answers an insert is left to Google
LiveSpec == Spec /\ WF_vars(Tick)

(***************************************************************************)
(* The envelope unwrap and merge on their own, over a family of payloads   *)
(* built from an argument object, a call object and a tool-call id.        *)
(***************************************************************************)
\* the objects over a choice of optional keys
Optional(choices) ==
  UNION { [present -> UNION {choices[k] : k \in present}] \cap
          { f \in [present -> UNION {choices[k] : k \in present}] :
              \A k \in present : f[k] \in choices[k] } :
          present \in SUBSET DOMAIN choices }

ArgObjects ==
  { Obj(f) : f \in Optional([ sessionId |-> {SidV1, Null},
                              timezone  |-> {Txt("UTC", 3)},
                              name      |-> {Txt("Jacob", 5)} ]) }

MetaObjects ==
  { Obj(f) : f \in Optional([ sessionId |-> {SidA},
                              timezone  |-> {Txt("Europe/Istanbul", 15)},
                              name      |-> {Txt("Browser", 7)} ]) }

\* message.call: absent, without metadata, or with a metadata object
CallChoices == {Undefined, EmptyObj} \cup {Obj([metadata |-> m]) : m \in MetaObjects}

IdChoices == {Undefined, Txt("call_1", 6)}

\* lines 143-171 of the handler: raised is the TypeError of the property reads
Unwrap(body) ==
  IF UnwrapThrows(body)
  THEN [raised |-> TRUE, toolCallId |-> Undefined, record |-> Undefined]
  ELSE [raised |-> FALSE, toolCallId |-> toolCallId(body), record |-> merged(body)]

Unwrapped(shape, args, meta, body) ==
  LET u == Unwrap(body)
  IN [ shape |-> shape, args |-> args, meta |-> meta, body |-> body,
       raised |-> u.raised, toolCallId |-> u.toolCallId, record |-> u.record ]

UnwrapFlat(args) ==
  /\ norm' = Unwrapped("flat", args, Undefined, args)
  /\ UNCHANGED <<serverVars, duration, resolved, ledgerLog, debug>>

\* a tool call carrying a function with an argument object
UnwrapToolCall(args, call, id) ==
  /\ norm' = Unwrapped("envelope", args, OptGet(call, "metadata"),
                       Envelope(ToolCalls, Arr(<<ToolCall(id, Function(args))>>), call))
  /\ UNCHANGED <<serverVars, duration, resolved, ledgerLog, debug>>

\* a tool call without a function, without arguments, or not an object at all
UnwrapBareToolCall(element, call) ==
  /\ norm' = Unwrapped("envelope", EmptyObj, OptGet(call, "metadata"),
                       Envelope(ToolCalls, Arr(<<element>>), call))
  /\ UNCHANGED <<serverVars, duration, resolved, ledgerLog, debug>>

BareToolCalls ==
  { Obj([id |-> Txt("call_1", 6)]),
    Obj([id |-> Txt("call_1", 6), function |-> Obj([name |-> Txt("create_calendar_event", 21)])]),
    Num(7),
    Null }

NormNext ==
  \/ \E args \in ArgObjects : UnwrapFlat(args)
  \/ \E args \in ArgObjects, call \in CallChoices, id \in IdChoices :
       UnwrapToolCall(args, call, id)
  \/ \E element \in BareToolCalls, call \in CallChoices :
       UnwrapBareToolCall(element, call)

NormSpec == Init /\ [][NormNext]_vars

(***************************************************************************)
(* The schema's durationMins field on its own: a direct call whose other   *)
(* fields are valid, over the numbers 0, 0.5, 1, ... and some non-numbers. *)
(***************************************************************************)
MaxDurationHalves == 490

DurationValues ==
  {NumHalves(h) : h \in 0..MaxDurationHalves}
    \cup {NumHalves(0 - 2), Txt("30", 2), Null, Undefined}

DurationBody(v) ==
  Obj([Fields(SidA, Txt("2026-03-20", 10), Txt("10:00", 5), Txt("UTC", 3))
         EXCEPT !.durationMins = v])

\* CreateEventSchema.safeParse of the record, and the durationMins it yields
ValidateDuration(v) ==
  /\ LET m == merged(DurationBody(v))
         ok == safeParseSuccess(m)
     IN duration' = [ phase |-> "done", value |-> v, accepted |-> ok,
                      minutes |-> IF ok THEN ParsedData(m).durationMins ELSE 0 ]
  /\ UNCHANGED <<serverVars, norm, resolved, ledgerLog, debug>>

DurationNext == \E v \in DurationValues : ValidateDuration(v)

DurationSpec == Init /\ [][DurationNext]_vars

(***************************************************************************)
(* Date/time resolution on its own: one direct call with a valid session,  *)
(* put to the handler at a chosen instant, in a chosen caller zone, by a    *)
(* process running at a chosen fixed offset from UTC.  local is the wall-   *)
(* clock reading the caller means, in minutes of the caller's zone.         *)
(***************************************************************************)
ProcOffsets == {0 - 8 * 60, 0, 5 * 60 + 30}

\* the instants at which the request arrives
Instants ==
  { ClockStart,
    NewYorkDstStart - 1, NewYorkDstStart,
    NewYorkDstEnd - 30, NewYorkDstEnd + 30 }

WallDays == {1, 2, 239}
WallMinutes == {0, 60 + 30, 2 * 60, 2 * 60 + 30, 3 * 60, 12 * 60, 23 * 60 + 59}

DayText(day) == CHOOSE d \in DOMAIN IsoDays : IsoDays[d] = day

ZoneText(zone) ==
  CASE zone = "UTC" -> Txt(zone, 3)
    [] zone = "Europe/Istanbul" -> Txt(zone, 15)
    [] zone = "America/New_York" -> Txt(zone, 16)

\* the reading of an instant in a zone
LocalOf(zone, ts) == ts + ZoneOffset(zone, ts)

Asked(kind, zone, procOffset, at, local, date, time) ==
  [ phase |-> "asked", kind |-> kind, zone |-> zone, procOffset |-> procOffset,
    at |-> at, local |-> local,
    req |-> NewRun(0, Obj(Fields(SidA, date, time, ZoneText(zone))), << >>).req ]

\* an ISO date and an HH:mm time
AskedWall(zone, procOffset, at, day, minute) ==
  Asked("wall", zone, procOffset, at, day * MinutesPerDay + minute,
        Txt(DayText(day), 10), Txt(ClockText(minute), 5))

\* the caller's clock reading delta minutes from the arrival, as date and time
AskedNear(zone, procOffset, at, delta) ==
  LET local == LocalOf(zone, at + delta)
  IN Asked(IF delta > 0 THEN "later" ELSE IF delta < 0 THEN "earlier" ELSE "now",
           zone, procOffset, at, local,
           Txt(DayText(local \div MinutesPerDay), 10),
           Txt(ClockText(local % MinutesPerDay), 5))

\* a spoken date and time
AskedSpoken(zone, procOffset, at, tomorrow, evening) ==
  LET today == LocalOf(zone, at) \div MinutesPerDay
  IN Asked("spoken", zone, procOffset, at,
           (today + IF tomorrow THEN 1 ELSE 0) * MinutesPerDay
             + (IF evening THEN 23 * 60 ELSE 9 * 60),
           IF tomorrow THEN Txt("tomorrow", 8) ELSE Txt("today", 5),
           IF evening THEN Txt("11 PM", 5) ELSE Txt("09:00", 5))

\* a string of three whitespace characters
Blank == Padded(1, "", 0, 2)

\* a request whose name, or whose date and time, are nothing but whitespace
AskedBlank(zone, procOffset, at, field) ==
  LET whole == Fields(SidA, Txt("2026-11-02", 10), Txt("10:00", 5), ZoneText(zone))
      body == IF field = "name" THEN [whole EXCEPT !.name = Blank]
              ELSE [whole EXCEPT !.date = Blank, !.time = Blank]
  IN [ phase |-> "asked", kind |-> "blank", zone |-> zone, procOffset |-> procOffset,
       at |-> at, local |-> 0, req |-> NewRun(0, Obj(body), << >>).req ]

\* what the first and the further tool calls of an envelope ask for
CallArgs ==
  { Obj(Fields(SidA, Txt("2026-11-02", 10), Txt("10:00", 5), Txt("UTC", 3))),
    Obj(Fields(SidA, Txt("2020-01-01", 10), Txt("09:00", 5), Txt("UTC", 3))),
    Obj(Fields(SidV1, Txt("2026-03-20", 10), Txt("12:00", 5), Txt("America/New_York", 16))),
    Obj(SpokenArgs) }

AskedBody(kind, at, body) ==
  [ phase |-> "asked", kind |-> kind, zone |-> "UTC", procOffset |-> ServerOffset,
    at |-> at, local |-> 0, req |-> NewRun(0, body, << >>).req ]

\* an envelope with two or three tool calls, each with an id of its own
AskedSeveral(at, first, second, third) ==
  AskedBody("several", at,
    Envelope(ToolCalls,
             Arr(<<ToolCall(Txt("call_1", 6), Function(first)),
                   ToolCall(Txt("call_2", 6), Function(second))>>
                 \o (IF third THEN <<ToolCall(Txt("call_3", 6), Function(second))>>
                               ELSE << >>)),
             BrowserCall))

\* message.toolCallList: absent, empty, or holding a call
ListChoices ==
  { Undefined, Arr(<< >>),
    Arr(<<ToolCall(Txt("call_1", 6),
                   Function(Obj(Fields(SidA, Txt("2026-11-02", 10), Txt("10:00", 5),
                                       Txt("UTC", 3)))))>>) }

\* a body with a message object that is not a tool-calls envelope, with
\* fields of its own at the top level
AskedOther(at, type, list, top) ==
  AskedBody("other", at,
    Obj(top @@ [message |-> Obj([type |-> type, toolCallList |-> list,
                                 call |-> BrowserCall])]))

TopFields ==
  { Fields(SidA, Txt("2026-11-02", 10), Txt("12:00", 5), Txt("America/New_York", 16)),
    [name |-> Txt("Jacob", 5), date |-> Txt("2026-03-20", 10), time |-> Txt("12:00", 5),
     durationMins |-> Num(30)],
    [k \in {} |-> Undefined] }

ResolveRequests ==
  {AskedWall(z, p, at, d, m) :
     z \in IanaZones, p \in ProcOffsets, at \in Instants, d \in WallDays, m \in WallMinutes}
  \cup {AskedNear(z, p, at, delta) :
          z \in IanaZones, p \in ProcOffsets, at \in Instants, delta \in {0 - 1, 0, 1}}
  \cup {AskedSpoken(z, p, at, tomorrow, evening) :
          z \in IanaZones, p \in ProcOffsets, at \in Instants,
          tomorrow \in BOOLEAN, evening \in BOOLEAN}
  \cup {AskedSeveral(at, first, second, third) :
          at \in Instants, first \in CallArgs, second \in CallArgs, third \in BOOLEAN}
  \cup {AskedOther(at, type, list, top) :
          at \in Instants, type \in {ToolCalls, Txt("status-update", 13)},
          list \in ListChoices, top \in TopFields}
  \cup {AskedBlank(z, p, at, field) :
          z \in IanaZones, p \in ProcOffsets, at \in Instants, field \in {"name", "when"}}

ResolveInit ==
  /\ ServerInit
  /\ norm = NoUnwrap
  /\ duration = NoDuration
  /\ resolved \in ResolveRequests
  /\ ledgerLog = NoLedgerLog
  /\ debug = NoDebug("development")

\* the handler takes the request, up to its return or its await
Resolve ==
  /\ resolved.phase = "asked"
  /\ resolved' =
       [resolved EXCEPT
          !.phase = "resolved",
          !.req = HandleCreateEvent(0, resolved.req.body, resolved.at,
                                    resolved.procOffset, sessions, << >>, TRUE).req]
  /\ UNCHANGED <<serverVars, norm, duration, ledgerLog, debug>>

\* calendar.events.insert settles for a request that awaits it
ResolveSettles(outcome) ==
  /\ resolved.phase = "resolved"
  /\ resolved.req.phase = "awaiting"
  /\ resolved' =
       [resolved EXCEPT
          !.phase = "settled",
          !.req = ResumeCreateEvent(resolved.req, outcome, << >>,
                                    sessionEventStore, TRUE).run.req]
  /\ UNCHANGED <<serverVars, norm, duration, ledgerLog, debug>>

ResolveNext ==
  \/ Resolve
  \/ \E outcome \in InsertOutcomes : ResolveSettles(outcome)

ResolveSpec == ResolveInit /\ [][ResolveNext]_vars

(***************************************************************************)
(* Several create-event requests of one browser session in flight at once. *)
(* Each handler runs without interruption up to its await of               *)
(* createCalendarEvent and again from the settlement of that call to its   *)
(* return; the calls settle in any order.                                  *)
(***************************************************************************)
MaxInFlight == 2

\* payloads of the session SidA: two that reach Google and one that is
\* rejected as past
ConcBodies ==
  { Obj(Fields(SidA, Txt("2026-03-20", 10), Txt("10:00", 5), Txt("America/New_York", 16))),
    Envelope(ToolCalls, Arr(<<ToolCall(Txt("call_1", 6), Function(Obj(SpokenArgs)))>>), BrowserCall),
    Envelope(ToolCalls,
             Arr(<<ToolCall(Txt("call_2", 6),
                            Function(Obj(Fields(SidA, Txt("2020-01-01", 10), Txt("09:00", 5), Txt("UTC", 3)))))>>),
             BrowserCall) }

ConcOutcomes == {"ok", "rate_limited"}

ConcReceive(body, diskOk) ==
  /\ Len(requests) < MaxInFlight
  /\ Receive(body, diskOk, "errorHandler")

ConcNext ==
  \/ \E body \in ConcBodies, diskOk \in BOOLEAN : ConcReceive(body, diskOk)
  \/ \E i \in DOMAIN requests, outcome \in ConcOutcomes, diskOk \in BOOLEAN :
       InsertSettles(i, outcome, diskOk, "errorHandler")

ConcSpec == Init /\ [][ConcNext]_vars

(***************************************************************************)
(* The session event store on its own: events recorded for two sessions,   *)
(* as the success branch of create-event records them, and listings by     *)
(* GET /api/session-events/:sessionId.                                     *)
(***************************************************************************)
MaxRecorded == 52

SidB == Txt("33333333-3333-4333-9333-333333333333", 36)
SidC == Txt("44444444-4444-4444-a444-444444444444", 36)

\* the path parameters that match UUID_RE (version 4, variant 8..b)
V4Uuids == {SidA.core, SidB.core, SidC.core}

ListedIds == V4Uuids \cup {SidV1.core, "not-a-uuid"}

\* a listing that never finds an event
getNoEvents(store, sessionId) ==
  IF sessionId \notin V4Uuids
  THEN [asked |-> sessionId, status |-> 400, events |-> << >>]
  ELSE [asked |-> sessionId, status |-> 200, events |-> << >>]

\* GET /session-events/:sessionId
getSessionEvents(store, sessionId) ==
  IF sessionId \notin V4Uuids
  THEN [asked |-> sessionId, status |-> 400, events |-> << >>]
  ELSE [asked |-> sessionId, status |-> 200, events |-> StoreGet(store, sessionId)]

\* the n-th event recorded for the session
RecordedEvent(sid, n) ==
  [ title    |-> <<Lit("Meeting with "), Lit("Jacob")>>,
    startISO |-> <<Iso(13 * MinutesPerDay + 10 * 60)>>,
    timezone |-> "UTC",
    htmlLink |-> [eventOf |-> <<sid, n>>] ]

RecordEvent(sid) ==
  /\ ledgerLog.count < MaxRecorded
  /\ LET evt == RecordedEvent(sid, Len(StoreGet(ledgerLog.history, sid)) + 1)
     IN /\ sessionEventStore' = storeSessionEvent(sessionEventStore, sid, evt)
        /\ ledgerLog' =
             [ history |-> [k \in DOMAIN ledgerLog.history \cup {sid} |->
                             IF k = sid THEN Append(StoreGet(ledgerLog.history, sid), evt)
                             ELSE ledgerLog.history[k]],
               count |-> ledgerLog.count + 1,
               response |-> NoListing ]
  /\ UNCHANGED <<requests, auditFile, sessions, now, norm, duration, resolved, debug>>

ListEvents(sessionId) ==
  /\ ledgerLog' = [ledgerLog EXCEPT
                     !.response = getSessionEvents(sessionEventStore, sessionId)]
  /\ UNCHANGED <<serverVars, norm, duration, resolved, debug>>

LedgerNext ==
  \/ \E sid \in {SidA.core, SidB.core} : RecordEvent(sid)
  \/ \E sessionId \in ListedIds : ListEvents(sessionId)

LedgerSpec == Init /\ [][LedgerNext]_vars

\* the server with the read-back endpoint polled between its other steps
ReadBackNext ==
  \/ Next
  \/ \E sessionId \in ListedIds : ListEvents(sessionId)

ReadBackSpec == Init /\ [][ReadBackNext]_vars

(***************************************************************************)
(* Sessions as GET /auth/google/callback stores them: the session id is    *)
(* the state parameter of the callback request, stored with the refresh    *)
(* token once the code was exchanged.                                      *)
(***************************************************************************)
\* the state parameter of the callback: a version-1 UUID, a version-4 UUID
CallbackStates == {SidV1.core, SidB.core}

\* the code was exchanged: upsertSession(state, refreshToken)
OAuthCallback(state) ==
  /\ sessions' = sessions \cup {state}
  /\ UNCHANGED <<requests, auditFile, sessionEventStore, now, norm, duration,
                 resolved, ledgerLog, debug>>

SessionBodies ==
  { Obj(Fields(SidV1, Txt("2026-03-20", 10), Txt("10:00", 5), Txt("UTC", 3))),
    Obj(Fields(SidA, Txt("2026-03-20", 10), Txt("10:00", 5), Txt("UTC", 3))) }

SessionNext ==
  \/ \E state \in CallbackStates : OAuthCallback(state)
  \/ \E body \in SessionBodies : CreateEvent(body, TRUE, "errorHandler")
  \/ \E i \in DOMAIN requests, outcome \in ConcOutcomes :
       InsertSettles(i, outcome, TRUE, "errorHandler")
  \/ \E sessionId \in {SidA.core, SidV1.core, SidB.core} : ListEvents(sessionId)

SessionSpec == Init /\ [][SessionNext]_vars

(***************************************************************************)
(* GET /debug/last-audit (routes/debug.ts) over an audit file that grows   *)
(* one line at a time.                                                     *)
(***************************************************************************)
MaxLines == 202

NaN == [t |-> "nan"]

\* the decimal numerals of the requested counts
Numerals == {0, 1, 3, 50, 200, 201, 1000}

\* req.query.n: absent, or the text after "n="
QueryValues ==
  {Undefined, Txt("", 0), Txt("abc", 3), Txt("-5", 2), Txt("2.5", 3)}
    \cup {Txt(ToString(k), Len(ToString(k))) : k \in Numerals}

\* Number(v) for a query value: undefined and text that is no numeral give
\* NaN, the empty string gives 0
ToNumber(v) ==
  CASE v.t = "undefined" -> NaN
    [] v.core = "" -> Num(0)
    [] v.core = "-5" -> Num(0 - 5)
    [] v.core = "2.5" -> NumHalves(5)
    [] \E k \in Numerals : ToString(k) = v.core ->
         Num(CHOOSE k \in Numerals : ToString(k) = v.core)
    [] OTHER -> NaN

\* a || b on numbers: NaN and 0 are falsy
OrElse(a, b) == IF a.t = "nan" \/ a.twice = 0 THEN b ELSE a

MathMax(a, b) == IF a.twice >= b.twice THEN a ELSE b
MathMin(a, b) == IF a.twice <= b.twice THEN a ELSE b

\* Math.min(Math.max(Number(req.query.n) || 50, 1), 200)
PageSize(v) == MathMin(MathMax(OrElse(ToNumber(v), Num(50)), Num(1)), Num(200))

\* lines.slice(-n) for n >= 1: the relative index is truncated to an integer
SliceLast(lines, n) ==
  LET k == n.twice \div 2
      from == IF Len(lines) > k THEN Len(lines) - k ELSE 0
  IN SubSeq(lines, from + 1, Len(lines))

\* JSON.parse of a line JSON.stringify wrote: properties whose value was
\* undefined are not in the line
ParsedLines(lines) ==
  [j \in DOMAIN lines |->
     [k \in DOMAIN lines[j] \
               {f \in {"rawBody", "input", "htmlLink"} : lines[j][f] = Undefined}
        |-> lines[j][k]]]

\* the handler of GET /debug/last-audit; the file exists once a line was written
lastAudit(nodeEnv, file, v) ==
  IF nodeEnv = "production"
  THEN [status |-> 404, count |-> 0, total |-> 0, entries |-> << >>]
  ELSE IF Len(file) = 0
  THEN [status |-> 200, count |-> 0, total |-> 0, entries |-> << >>]
  ELSE LET entries == ParsedLines(SliceLast(file, PageSize(v)))
       IN [status |-> 200, count |-> Len(entries), total |-> Len(file),
           entries |-> entries]

DebugInit ==
  /\ ServerInit
  /\ norm = NoUnwrap
  /\ duration = NoDuration
  /\ resolved = NoResolve
  /\ ledgerLog = NoLedgerLog
  /\ debug \in {NoDebug(e) : e \in {"development", "production"}}

\* a request is received: its first audit line is written
WriteLine ==
  /\ Len(auditFile) < MaxLines
  /\ auditFile' = writeCalendarAuditLog(auditFile,
                    ReceivedEntry(Len(auditFile) + 1, EmptyObj), TRUE).file
  /\ debug' = NoDebug(debug.nodeEnv)
  /\ UNCHANGED <<requests, sessionEventStore, sessions, now, norm, duration,
                 resolved, ledgerLog>>

GetLastAudit(v) ==
  /\ debug' = lastAudit(debug.nodeEnv, auditFile, v)
                @@ [nodeEnv |-> debug.nodeEnv, asked |-> TRUE, n |-> v]
  /\ UNCHANGED <<serverVars, norm, duration, resolved, ledgerLog>>

DebugNext ==
  \/ WriteLine
  \/ \E v \in QueryValues : GetLastAudit(v)

DebugSpec == DebugInit /\ [][DebugNext]_vars

(***************************************************************************)
(* Properties of the create-event pipeline.                                *)
(***************************************************************************)
Finished(r) == r.phase \in {"done", "crashed"}

TerminalAudits(r) == SelectSeq(r.audits, LAMBDA e : e.stage # "received")

Steps(r) == {r.trace[j] : j \in DOMAIN r.trace}

TextNames(text, word) == \E j \in DOMAIN text : text[j] = Lit(word)

\* C1: every finished create-event request has handed exactly one entry with
\* a stage other than received to the audit writer, under the requestId of
\* its received entry.
C1_OneTerminalEntry ==
  \A i \in DOMAIN requests :
    Finished(requests[i]) =>
      /\ Len(TerminalAudits(requests[i])) = 1
      /\ TerminalAudits(requests[i])[1].requestId = requests[i].audits[1].requestId

\* C2: every finished create-event request was answered exactly once, and by
\* vapiReply (never left unanswered, never answered by the error middleware).
C2_OneReplyByReporter ==
  \A i \in DOMAIN requests :
    Finished(requests[i]) =>
      /\ Len(requests[i].replies) = 1
      /\ requests[i].replies[1].by = "vapiReply"

\* C3: the first step of every request is the write of its received entry,
\* with the placeholder hash; unwrapping, validation, parsing, the downstream
\* call and every other audit entry of the request come after it.
C3_ReceivedFirst ==
  \A i \in DOMAIN requests :
    LET r == requests[i]
    IN /\ Len(r.trace) >= 1 /\ r.trace[1] = "audit"
       /\ Len(r.audits) >= 1
       /\ r.audits[1].stage = "received"
       /\ r.audits[1].sessionIdHash = NoHash
       /\ r.audits[1].requestId = r.requestId
       /\ \A j \in DOMAIN r.audits : j > 1 => r.audits[j].stage # "received"
       /\ \A j \in DOMAIN r.trace :
            r.trace[j] \in {"unwrap", "safeParse", "parseDate", "setZone", "guard",
                            "createCalendarEvent", "insert", "reply"} => j > 1

C3_Witness ==
  \E i \in DOMAIN requests :
    /\ requests[i].outcome = "success"
    /\ Len(requests[i].audits) = 2
    /\ Get(merged(requests[i].body), "sessionId") = SidA

\* the stage names of the specification's audit lifecycle, per way of ending
\* (google_success and google_error are the code's names of its
\* downstream_success and downstream_error)
NamedStage(outcome) ==
  CASE outcome = "schema" -> "validation_error"
    [] outcome = "parse" -> "parse_error"
    [] outcome = "zone" -> "zone_error"
    [] outcome = "past" -> "past_time"
    [] outcome = "success" -> "google_success"
    [] outcome \in {"google_error", "unexpected"} -> "google_error"

\* the stage each branch of the handler writes
WrittenStage(outcome) ==
  CASE outcome \in {"schema", "parse", "zone"} -> "validation_error"
    [] outcome = "past" -> "past_time"
    [] outcome = "success" -> "google_success"
    [] outcome \in {"google_error", "unexpected"} -> "google_error"

C6_EnvelopeResultsShape ==
  \A i \in DOMAIN requests :
    LET r == requests[i]
    IN (r.phase = "done" /\ isVapiEnvelope(r.body)) =>
         /\ Len(r.replies) = 1
         /\ r.replies[1].status = 200
         /\ r.replies[1].shape = "results"
         /\ r.replies[1].toolCallId = Get(FirstToolCall(r.body), "id")

\* the statuses of the README's table for the flat shape
FlatStatus(r) ==
  CASE r.outcome \in {"schema", "parse", "zone", "past"} -> 400
    [] r.outcome = "success" -> 201
    [] r.outcome = "google_error" -> TerminalAudits(r)[1].googleStatus
    [] r.outcome = "unexpected" -> 500

\* C7 as stated: every answered request with a flat body got the status of
\* its category (201, 400, the downstream error's status, 500).
C7_FlatStatusByCategory ==
  \A i \in DOMAIN requests :
    LET r == requests[i]
    IN (r.phase = "done" /\ ~isVapiEnvelope(r.body)) =>
         /\ Len(r.replies) = 1
         /\ r.replies[1].status = FlatStatus(r)

\* C9 as stated: unwrapping never raises, so every request reaches schema
\* validation whatever its body.
C9_NormalizerNeverRaises ==
  \A i \in DOMAIN requests : "safeParse" \in Steps(requests[i])

\* C10: a request whose normalised record has a field issue ends in the
\* validation branch: its reply names every offending field, the date/time
\* parser was not run, createCalendarEvent was not called, and no event in
\* the session store comes from it.
C10_SchemaFailureStops ==
  \A i \in DOMAIN requests :
    LET r == requests[i]
    IN ("safeParse" \in Steps(r) /\ DOMAIN fieldErrors(merged(r.body)) # {}) =>
         /\ r.phase = "done" /\ r.outcome = "schema"
         /\ TerminalAudits(r)[1].stage = "validation_error"
         /\ Len(r.replies) = 1
         /\ \A f \in DOMAIN fieldErrors(merged(r.body)) : TextNames(r.replies[1].text, f)
         /\ "parseDate" \notin Steps(r)
         /\ r.calls = << >>
         /\ r.stored = << >>
         /\ \A sid \in DOMAIN sessionEventStore :
              \A j \in DOMAIN sessionEventStore[sid] :
                sessionEventStore[sid][j].htmlLink.eventOf # r.requestId

C10_Witness ==
  \E i \in DOMAIN requests :
    /\ requests[i].outcome = "schema"
    /\ {"sessionId", "timezone"} \subseteq DOMAIN fieldErrors(merged(requests[i].body))
    /\ Len(requests[i].replies) = 1

\* C5: whether or not the audit writes succeed, a step of the handler leaves
\* the request (its reply, its createCalendarEvent call, the entries it
\* handed to the writer) and the session store exactly as the same step with
\* a working disk leaves them.
C5_AuditFailureInvisible ==
  [][ /\ Len(requests') = Len(requests) + 1 =>
           LET r == requests'[Len(requests')]
               h == HandleCreateEvent(r.requestId, r.body, now, ServerOffset,
                                      sessions, auditFile, TRUE)
           IN /\ \E esc \in Escapes : r = Escape(h.req, esc)
              /\ sessionEventStore' = sessionEventStore
      /\ \A i \in DOMAIN requests :
           (Len(requests') = Len(requests) /\ requests'[i] # requests[i]) =>
             \E o \in InsertOutcomes, esc \in Escapes :
               LET h == ResumeCreateEvent(requests[i], o, auditFile,
                                          sessionEventStore, TRUE)
               IN /\ requests'[i] = Escape(h.run.req, esc)
                  /\ sessionEventStore' = h.store ]_vars

C5_Witness ==
  \E i \in DOMAIN requests :
    /\ requests[i].outcome = "success"
    /\ Len(requests[i].audits) = 2
    /\ auditFile = << >>
    /\ Len(requests[i].replies) = 1
    /\ Len(StoreGet(sessionEventStore, SidA.core)) = 1

NormKeys == {"sessionId", "timezone", "name", "date", "metadata", "message"}

\* C8: the record built from a flat payload reads like the payload under
\* every key; the record built from an enveloped payload holds every key of
\* the argument object with the argument's value, holds the call metadata's
\* sessionId and timezone under those keys when the arguments lack them, and
\* has no other key.
C8_MergeRule ==
  (norm.shape # "none" /\ ~norm.raised) =>
    /\ norm.shape = "flat" =>
         \A k \in NormKeys \cup DOMAIN norm.record.o :
           Get(norm.record, k) = Get(norm.args, k)
    /\ norm.shape = "envelope" =>
         /\ \A k \in DOMAIN norm.args.o : Get(norm.record, k) = norm.args.o[k]
         /\ \A k \in {"sessionId", "timezone"} \ DOMAIN norm.args.o :
              Get(norm.record, k) = OptGet(norm.meta, k)
         /\ DOMAIN norm.record.o \subseteq DOMAIN norm.args.o \cup {"sessionId", "timezone"}

C8_Witness ==
  /\ norm.shape = "envelope"
  /\ ~norm.raised
  /\ DOMAIN norm.args.o = {"sessionId", "name"}
  /\ norm.args.o.sessionId = SidV1
  /\ norm.meta.t = "object"
  /\ DOMAIN norm.meta.o = {"sessionId", "timezone", "name"}
  /\ Get(norm.record, "sessionId") = SidV1
  /\ Get(norm.record, "timezone") = Txt("Europe/Istanbul", 15)
  /\ Get(norm.record, "name") = Txt("Jacob", 5)

LocalExists(zone, local) ==
  \E o \in {ZoneOffset(zone, local - 24 * 60), ZoneOffset(zone, local + 24 * 60)} :
    LocalOf(zone, local - o) = local

PassedGuard(r) == r.phase = "awaiting" /\ Len(r.calls) = 1

\* C12: for an ISO date and an HH:mm time that exist in the caller's zone,
\* whatever the process's offset and the instant of the request, the handler
\* gets as far as the past-time guard and the start it resolved reads, in the
\* caller's zone, as exactly that date, hour and minute; the start it hands
\* to createCalendarEvent is that reading.
C12_RoundTrip ==
  (resolved.phase = "resolved" /\ resolved.kind = "wall"
     /\ LocalExists(resolved.zone, resolved.local)) =>
    LET r == resolved.req
    IN /\ "guard" \in Steps(r)
       /\ LocalOf(resolved.zone, r.startTs) = resolved.local
       /\ PassedGuard(r) => r.calls[1].startRFC3339 = <<Iso(resolved.local)>>

C12_Witness ==
  /\ resolved.phase = "resolved"
  /\ resolved.kind = "wall"
  /\ resolved.zone = "Europe/Istanbul"
  /\ resolved.procOffset = 0
  /\ resolved.local = 2 * MinutesPerDay + 23 * 60 + 59
  /\ PassedGuard(resolved.req)
  /\ resolved.req.startTs = 2 * MinutesPerDay + 20 * 60 + 59

\* C13: a spoken "today"/"tomorrow" with "11 PM"/"09:00" resolves to that
\* hour on the caller's own today or tomorrow (the day the instant of the
\* request reads in the caller's zone), whatever the process's offset.
C13_RelativeToCaller ==
  (resolved.phase = "resolved" /\ resolved.kind = "spoken") =>
    /\ "guard" \in Steps(resolved.req)
    /\ LocalOf(resolved.zone, resolved.req.startTs) = resolved.local

\* "tomorrow" "11 PM" from Istanbul at 22:30Z on 7 March, the process on UTC:
\* 8 March has begun for the caller, the start is 23:00 on 9 March
C13_Witness ==
  /\ resolved.phase = "resolved"
  /\ resolved.kind = "spoken"
  /\ resolved.zone = "Europe/Istanbul"
  /\ resolved.procOffset = 0
  /\ resolved.at = ClockStart
  /\ Get(resolved.req.body, "date") = Txt("tomorrow", 8)
  /\ Get(resolved.req.body, "time") = Txt("11 PM", 5)
  /\ PassedGuard(resolved.req)
  /\ resolved.req.calls[1].startRFC3339 = <<Iso(2 * MinutesPerDay + 23 * 60)>>

\* C14 as stated: in every zone the caller's reading one minute after the
\* instant of the request passes the past-time guard, and the reading of
\* that instant and the one a minute before it are rejected as past.
C14_GuardAroundNow ==
  resolved.phase = "resolved" =>
    /\ resolved.kind = "later" => PassedGuard(resolved.req)
    /\ resolved.kind \in {"now", "earlier"} => resolved.req.outcome = "past"

\* C16 as stated: a date and time that no instant reads in the caller's zone
\* ends the request with the zone failure and without a createCalendarEvent call.
C16_GapRejected ==
  (resolved.phase = "resolved" /\ resolved.kind = "wall"
     /\ ~LocalExists(resolved.zone, resolved.local)) =>
    /\ resolved.req.outcome = "zone"
    /\ resolved.req.calls = << >>

StepIndex(r, step) == CHOOSE j \in DOMAIN r.trace : r.trace[j] = step

\* C15: createCalendarEvent is called at most once per request and only
\* after the date/time parsed, the zone check passed and the guard found the
\* start strictly after the clock reading of that moment; a request stopped
\* by the guard has the past_time audit entry and a reply that names the
\* resolved start, no createCalendarEvent call and no event in the session store.
C15_CallAfterGuards ==
  [][ \A i \in DOMAIN requests' :
        LET r == requests'[i]
        IN /\ r.calls # << >> =>
                /\ Len(r.calls) = 1
                /\ {"parseDate", "setZone", "guard"} \subseteq Steps(r)
                /\ StepIndex(r, "guard") < StepIndex(r, "createCalendarEvent")
                /\ r.outcome \notin {"schema", "parse", "zone", "past"}
           /\ (i \notin DOMAIN requests /\ "guard" \in Steps(r)) =>
                (r.calls # << >> <=> r.startTs > now) /\ (r.outcome = "past" <=> r.startTs <= now)
           /\ r.outcome = "past" =>
                /\ TerminalAudits(r)[1].stage = "past_time"
                /\ \E j \in DOMAIN r.replies[1].text :
                     r.replies[1].text[j] = Iso(LocalOf(r.data.timezone.core, r.startTs))
                /\ r.calls = << >>
                /\ r.stored = << >>
                /\ \A sid \in DOMAIN sessionEventStore' :
                     \A j \in DOMAIN sessionEventStore'[sid] :
                       sessionEventStore'[sid][j].htmlLink.eventOf # r.requestId ]_vars

\* 2020-01-01 09:00 in UTC
C15_Witness ==
  \E i \in DOMAIN requests :
    /\ requests[i].outcome = "past"
    /\ Get(merged(requests[i].body), "date") = Txt("2020-01-01", 10)
    /\ requests[i].startTs = (0 - 2257) * MinutesPerDay + 9 * 60
    /\ requests[i].replies[1].text[2] = Iso((0 - 2257) * MinutesPerDay + 9 * 60)
    /\ requests[i].calls = << >>

LastEvents(seq, n) == IF Len(seq) > n THEN SubSeq(seq, Len(seq) - n + 1, Len(seq)) ELSE seq

\* C17: each session's list in the store has at most 50 events and is the
\* last min(n, 50) of the n events recorded for the session, in the order
\* they were recorded; a listing for a version-4 session id answers 200 with
\* exactly that list, the empty list when nothing was recorded for it.
C17_LastFifty ==
  /\ \A sid \in DOMAIN sessionEventStore \cup DOMAIN ledgerLog.history \cup V4Uuids :
       /\ Len(StoreGet(sessionEventStore, sid)) <= 50
       /\ StoreGet(sessionEventStore, sid) = LastEvents(StoreGet(ledgerLog.history, sid), 50)
  /\ ledgerLog.response.asked \in V4Uuids =>
       /\ ledgerLog.response.status = 200
       /\ ledgerLog.response.events =
            LastEvents(StoreGet(ledgerLog.history, ledgerLog.response.asked), 50)

C17_Witness ==
  /\ Len(StoreGet(ledgerLog.history, SidA.core)) = 51
  /\ Len(StoreGet(ledgerLog.history, SidB.core)) = 1
  /\ ledgerLog.response.asked = SidA.core
  /\ Len(ledgerLog.response.events) = 50
  /\ ledgerLog.response.events[1] = ledgerLog.history[SidA.core][2]
  /\ ledgerLog.response.events[50] = ledgerLog.history[SidA.core][51]

\* the request's insert has just returned an event
Succeeded(i) ==
  /\ i \in DOMAIN requests
  /\ requests[i].phase = "awaiting"
  /\ requests'[i].outcome = "success"

\* the event of the request as it was sent to and returned by Google
CreatedEvent(r) ==
  [ title    |-> r.calls[1].title,
    startISO |-> r.calls[1].startRFC3339,
    timezone |-> r.calls[1].timezone,
    htmlLink |-> TerminalAudits(r)[1].htmlLink ]

\* C18: a step in which a request's createCalendarEvent returns an event
\* appends one event to the list of that request's sessionId, with the
\* title, start and timezone that were sent and the link that came back,
\* and leaves every other list alone; every other step of the server (a
\* rejection, a failed call, an arrival) leaves the store unchanged.
C18_LedgerOnSuccess ==
  [][ IF \E i \in DOMAIN requests : Succeeded(i)
      THEN \A i \in DOMAIN requests :
             Succeeded(i) =>
               LET r == requests'[i]
                   sid == r.data.sessionId.core
               IN /\ sid \in DOMAIN sessionEventStore'
                  /\ sessionEventStore'[sid] =
                       Append(StoreGet(sessionEventStore, sid), CreatedEvent(r))
                  /\ \A k \in DOMAIN sessionEventStore' \ {sid} :
                       k \in DOMAIN sessionEventStore
                         /\ sessionEventStore'[k] = sessionEventStore[k]
      ELSE sessionEventStore' = sessionEventStore ]_vars

C18_Witness ==
  \E i \in DOMAIN requests :
    /\ requests[i].outcome = "success"
    /\ isVapiEnvelope(requests[i].body)
    /\ StoreGet(sessionEventStore, SidA.core) = <<CreatedEvent(requests[i])>>
    /\ CreatedEvent(requests[i]).title = <<Lit("Big Project")>>
    /\ CreatedEvent(requests[i]).htmlLink = [eventOf |-> requests[i].requestId]

IsPrefix(s, t) == Len(s) <= Len(t) /\ SubSeq(t, 1, Len(s)) = s

\* the entries request i handed to the audit writer in this step
NewAudits(i) ==
  LET before == IF i \in DOMAIN requests THEN Len(requests[i].audits) ELSE 0
  IN SubSeq(requests'[i].audits, before + 1, Len(requests'[i].audits))

\* C19: with several requests in flight, every step leaves the lines of
\* the audit file in place and in order, and what it adds at the end is
\* one whole line per entry the running handler wrote, each the entry of
\* that one request (or nothing, when the disk refused the append).
C19_AppendOnly ==
  [][ /\ IsPrefix(auditFile, auditFile')
      /\ LET added == SubSeq(auditFile', Len(auditFile) + 1, Len(auditFile'))
         IN \/ added = << >>
            \/ \E i \in DOMAIN requests' :
                 /\ added = NewAudits(i)
                 /\ \A k \in DOMAIN added : added[k].requestId = i ]_vars

\* the lines of request 1 lie around the lines of request 2
C19_Witness ==
  /\ Len(auditFile) = 4
  /\ auditFile[1].requestId = 1 /\ auditFile[1].stage = "received"
  /\ auditFile[2].requestId = 2 /\ auditFile[2].stage = "received"
  /\ auditFile[3].requestId = 2 /\ auditFile[3].stage = "google_success"
  /\ auditFile[4].requestId = 1 /\ auditFile[4].stage = "google_success"

\* the requests of session sid whose event Google created
Successes(sid) ==
  { i \in DOMAIN requests :
      requests[i].outcome = "success" /\ requests[i].data.sessionId.core = sid }

\* where the google_success line of request i stands in the audit file; 0 if
\* the line was not written
SuccessLine(i) ==
  LET at == { k \in DOMAIN auditFile :
                auditFile[k].requestId = i /\ auditFile[k].stage = "google_success" }
  IN IF at = {} THEN 0 ELSE CHOOSE k \in at : TRUE

\* C20: with several requests of one session in flight, the session's list
\* holds the event of every request whose insert succeeded exactly once and
\* nothing else; the list only grows at its end, so events stand in the
\* order in which the calls completed, which is also the order of their
\* google_success lines in the audit file, whatever the order of arrival.
C20_CompletionOrder ==
  /\ [](\A sid \in DOMAIN sessionEventStore :
          LET list == sessionEventStore[sid]
          IN /\ Len(list) = Cardinality(Successes(sid))
             /\ \A i \in Successes(sid) :
                  Cardinality({p \in DOMAIN list : list[p] = CreatedEvent(requests[i])}) = 1
             /\ \A p, q \in DOMAIN list :
                  \A i, j \in Successes(sid) :
                    ( /\ p < q
                      /\ list[p] = CreatedEvent(requests[i])
                      /\ list[q] = CreatedEvent(requests[j])
                      /\ SuccessLine(i) > 0 /\ SuccessLine(j) > 0 )
                    => SuccessLine(i) < SuccessLine(j))
  /\ [](\A i \in DOMAIN requests :
          requests[i].outcome = "success" =>
            requests[i].data.sessionId.core \in DOMAIN sessionEventStore)
  /\ [][ \A sid \in DOMAIN sessionEventStore' :
           IsPrefix(StoreGet(sessionEventStore, sid), sessionEventStore'[sid]) ]_vars

\* the second request to arrive was the first to complete
C20_Witness ==
  /\ Len(requests) >= 2
  /\ requests[1].outcome = "success"
  /\ requests[2].outcome = "success"
  /\ SubSeq(StoreGet(sessionEventStore, SidA.core), 1, 2) =
       <<CreatedEvent(requests[2]), CreatedEvent(requests[1])>>

\* the JSON value v holds the string s at some depth
RECURSIVE Mentions(_, _)
Mentions(v, s) ==
  CASE v.t = "string" -> v.core = s.core
    [] v.t = "object" -> \E k \in DOMAIN v.o : Mentions(v.o[k], s)
    [] v.t = "array" -> \E j \in DOMAIN v.a : Mentions(v.a[j], s)
    [] OTHER -> FALSE

\* the session id string s stands in some field of the audit entry e
EntryMentions(e, s) ==
  \/ Mentions(e.rawBody, s)
  \/ /\ e.input # Undefined
     /\ \E k \in DOMAIN e.input \ {"durationMins"} :
          e.input[k].t = "string" /\ e.input[k].core = s.core
  \/ \E j \in DOMAIN e.errorMessage : e.errorMessage[j] = Lit(s.core)

\* C21 as stated: every line of the audit file names the session by the
\* hash of its id or by the placeholder, and the session id the request
\* was made with stands in no field of the line.
C21_NoRawSessionId ==
  \A k \in DOMAIN auditFile :
    LET e == auditFile[k]
        sid == Get(merged(requests[e.requestId].body), "sessionId")
    IN /\ e.sessionIdHash \in {NoHash, hashSessionId(sid)}
       /\ sid.t = "string" => ~EntryMentions(e, sid)

Count(seq, x) == Cardinality({j \in DOMAIN seq : seq[j] = x})

\* C22: a request calls createCalendarEvent at most once and issues at most
\* one calendar.events.insert; when the call fails, the request has still
\* made that one call only, has written one google_error entry with the
\* error's message, and has answered once with that message.
C22_NoRetry ==
  \A i \in DOMAIN requests :
    LET r == requests[i]
    IN /\ Len(r.calls) <= 1
       /\ Count(r.trace, "createCalendarEvent") = Len(r.calls)
       /\ Count(r.trace, "insert") <= 1
       /\ r.outcome = "google_error" =>
            /\ Len(r.calls) = 1
            /\ Len(TerminalAudits(r)) = 1
            /\ TerminalAudits(r)[1].stage = "google_error"
            /\ Len(r.replies) = 1
            /\ r.replies[1].text = TerminalAudits(r)[1].errorMessage

\* calendar.events.insert was issued and rejected with a rate-limit error
C22_Witness ==
  \E i \in DOMAIN requests :
    /\ requests[i].outcome = "google_error"
    /\ Count(requests[i].trace, "insert") = 1
    /\ TerminalAudits(requests[i])[1].googleStatus = 429
    /\ Len(requests[i].replies) = 1

\* C23 as stated: a request that waits for calendar.events.insert is
\* answered in the end, whether or not Google ever answers.
C23_AlwaysAnswered ==
  \A i \in 1..MaxRequests :
    (i \in DOMAIN requests /\ requests[i].phase = "awaiting")
      ~> (i \in DOMAIN requests /\ Len(requests[i].replies) >= 1)

\* C24: a request whose validated sessionId has no stored refresh token and
\* that got as far as createCalendarEvent ends as a google_error of the
\* unauthenticated kind: calendar.events.insert is not issued, the one
\* terminal entry has stage google_error, status 401 and the message asking
\* to authorise, the reply carries that message, and no event of the request
\* is in any session's list.
C24_NoCredential ==
  \A i \in DOMAIN requests :
    LET r == requests[i]
    IN ("createCalendarEvent" \in Steps(r) /\ r.data.sessionId.core \notin sessions) =>
         /\ r.phase = "done" /\ r.outcome = "google_error"
         /\ "insert" \notin Steps(r)
         /\ Len(TerminalAudits(r)) = 1
         /\ TerminalAudits(r)[1].stage = "google_error"
         /\ TerminalAudits(r)[1].googleStatus = 401
         /\ TerminalAudits(r)[1].errorMessage =
              <<Lit("Session not connected. Please authorise with Google Calendar first.")>>
         /\ Len(r.replies) = 1
         /\ r.replies[1].text = TerminalAudits(r)[1].errorMessage
         /\ r.stored = << >>
         /\ \A sid \in DOMAIN sessionEventStore :
              \A p \in DOMAIN sessionEventStore[sid] :
                sessionEventStore[sid][p].htmlLink.eventOf # r.requestId

\* the version-1 session id passes the validator and has no token
C24_Witness ==
  \E i \in DOMAIN requests :
    /\ "createCalendarEvent" \in Steps(requests[i])
    /\ requests[i].data.sessionId = SidV1
    /\ SidV1.core \notin sessions
    /\ requests[i].outcome = "google_error"
    /\ TerminalAudits(requests[i])[1].googleStatus = 401

\* C25 as stated: a request whose name, or whose date and time, consist of
\* whitespace only ends at schema validation: the date/time is never
\* parsed and createCalendarEvent is never called.
C25_BlankRejected ==
  (resolved.phase = "resolved" /\ resolved.kind = "blank") =>
    /\ resolved.req.outcome = "schema"
    /\ "parseDate" \notin Steps(resolved.req)
    /\ resolved.req.calls = << >>

\* the instants that read as local in the zone (two in a repeated hour)
WallReadings(zone, local) ==
  { ts \in { local - ZoneOffset(zone, local - 24 * 60),
             local - ZoneOffset(zone, local + 24 * 60) } : LocalOf(zone, ts) = local }

\* the instant a reader takes a wall-clock value for: in a repeated hour
\* the earlier or the later of the two, by the reader's rule
ReadWall(rule, zone, local) ==
  LET at == WallReadings(zone, local)
  IN CHOOSE ts \in at : \A other \in at : IF rule = "earlier" THEN ts <= other
                                                              ELSE ts >= other

\* C26 as stated: the startRFC3339 and endRFC3339 handed to
\* createCalendarEvent, read as wall-clock values of the request's
\* timezone, are instants exactly durationMins minutes apart, the end after
\* the start, whichever reading of a repeated hour the reader takes.
C26_EndAfterStart ==
  (resolved.phase = "resolved" /\ PassedGuard(resolved.req)) =>
    LET c == resolved.req.calls[1]
        zone == c.timezone
    IN \A rule \in {"earlier", "later"} :
         LET s == ReadWall(rule, zone, c.startRFC3339[1].iso)
             e == ReadWall(rule, zone, c.endRFC3339[1].iso)
         IN e > s /\ e - s = resolved.req.data.durationMins

\* the envelope that holds the first tool call of the body and no other
FirstOnly(body) ==
  Envelope(ToolCalls, Arr(<<ToolCallList(body).a[1]>>), OptGet(Message(body), "call"))

\* the body without the message object
TopOnly(body) == Obj([k \in DOMAIN body.o \ {"message"} |-> body.o[k]])

\* what the handler does with the body at the instant of the request
Handled(body) ==
  HandleCreateEvent(0, body, resolved.at, resolved.procOffset, sessions, << >>, TRUE).req

\* C27: an envelope of several tool calls is handled as the envelope of its
\* first call alone (same outcome, same createCalendarEvent arguments, same
\* reply) and, once answered, has one reply, a results entry under the first
\* call's id; a body whose message has another type, or no or an empty
\* toolCallList, is handled as the flat body it is without the message
\* (same outcome, same arguments, same reply) and, once answered, has one
\* reply in the shape without an id; the call metadata then supplies nothing.
C27_FirstCallOnly ==
  LET r == resolved.req
  IN /\ (resolved.phase = "resolved" /\ resolved.kind = "several") =>
          /\ r.outcome = Handled(FirstOnly(r.body)).outcome
          /\ r.calls = Handled(FirstOnly(r.body)).calls
          /\ r.replies = Handled(FirstOnly(r.body)).replies
     /\ (resolved.kind = "several" /\ r.phase = "done") =>
          /\ Len(r.replies) = 1
          /\ r.replies[1].shape = "results"
          /\ r.replies[1].toolCallId = Txt("call_1", 6)
     /\ (resolved.phase = "resolved" /\ resolved.kind = "other"
           /\ ~isVapiEnvelope(r.body)) =>
          /\ r.outcome = Handled(TopOnly(r.body)).outcome
          /\ r.calls = Handled(TopOnly(r.body)).calls
          /\ r.replies = Handled(TopOnly(r.body)).replies
     /\ (resolved.kind = "other" /\ ~isVapiEnvelope(r.body) /\ r.phase = "done") =>
          /\ Len(r.replies) = 1
          /\ r.replies[1].shape = "error"
          /\ r.replies[1].toolCallId = Undefined

\* three tool calls: the first asks for 2 November in UTC, the others for
\* 20 March in New York; the event of the first was created and reported
C27_Witness ==
  /\ resolved.phase = "settled"
  /\ resolved.kind = "several"
  /\ Len(ToolCallList(resolved.req.body).a) = 3
  /\ Get(Get(Get(ToolCallList(resolved.req.body).a[2], "function"), "arguments"), "date")
       = Txt("2026-03-20", 10)
  /\ resolved.req.outcome = "success"
  /\ resolved.req.calls[1].startRFC3339 = <<Iso(240 * MinutesPerDay + 10 * 60)>>
  /\ resolved.req.replies[1].toolCallId = Txt("call_1", 6)

\* the count a request asks for: 50 when n is absent, empty or no number,
\* else the number brought into 1..200 (a fraction counts as its whole part)
Wanted(v) ==
  IF v.t = "undefined" \/ v.core = "" \/ ToNumber(v).t = "nan" THEN 50
  ELSE LET k == ToNumber(v).twice \div 2
       IN IF ToNumber(v).twice < 2 THEN 1 ELSE IF k > 200 THEN 200 ELSE k

\* C28 as stated: in production GET /debug/last-audit answers 404 without
\* entries; elsewhere it answers with the last n lines of the audit file in
\* file order, n the requested count brought into 1..200, or 50 when the
\* count is absent or no number; no answer holds more than 200 entries or
\* more entries than the file has lines.
C28_LastAuditPage ==
  debug.asked =>
    IF debug.nodeEnv = "production"
    THEN debug.status = 404 /\ debug.entries = << >>
    ELSE /\ debug.status = 200
         /\ debug.entries = ParsedLines(LastEvents(auditFile, Wanted(debug.n)))
         /\ debug.count = Len(debug.entries)
         /\ debug.count <= 200
         /\ debug.count <= Len(auditFile)

\* the client of request i has been sent the success response
SuccessSent(i) == requests[i].outcome = "success" /\ Len(requests[i].replies) = 1

\* C29: a successful request ends with the google_success audit write, then
\* storeSessionEvent, then the reply, in that order; and every listing
\* answered for a session after the success reply of one of its requests
\* was sent holds that request's event (fewer than 50 events are stored per
\* session here, so none is evicted).
C29_StoredBeforeReply ==
  /\ [](\A i \in DOMAIN requests :
          requests[i].outcome = "success" =>
            LET t == requests[i].trace
            IN /\ Len(t) >= 3
               /\ SubSeq(t, Len(t) - 2, Len(t)) = <<"audit", "storeSessionEvent", "reply">>
               /\ requests[i].audits[Len(requests[i].audits)].stage = "google_success")
  /\ [][ (serverVars' = serverVars /\ ledgerLog'.response.status = 200) =>
           \A i \in DOMAIN requests :
             (SuccessSent(i)
                /\ requests[i].data.sessionId.core = ledgerLog'.response.asked) =>
               \E p \in DOMAIN ledgerLog'.response.events :
                 ledgerLog'.response.events[p] = CreatedEvent(requests[i]) ]_vars

\* the session's list was read back after the success reply
C29_Witness ==
  /\ Len(requests) = 1
  /\ SuccessSent(1)
  /\ ledgerLog.response.asked = SidA.core
  /\ ledgerLog.response.status = 200
  /\ ledgerLog.response.events = <<CreatedEvent(requests[1])>>

\* C30 as stated: a listing asked with a session id that the create-event
\* validator accepts, or under which the store holds events, is never
\* answered 400.
C30_ReadBackAcceptsSession ==
  LET asked == ledgerLog.response.asked
  IN ( \/ \E sid \in ZodUuids : sid = asked
       \/ StoreGet(sessionEventStore, asked) # << >> ) =>
       ledgerLog.response.status # 400

====
